---------------------------- MODULE Spec2Model ----------------------------
(***************************************************************************)
(* Model of pySDC's step class (src/pySDC/Step.py) and of the 1D Dirichlet *)
(* mesh transfer (src/implementations/transfer_classes/TransferMesh_1D.py).*)
(*                                                                         *)
(* Python values are tagged tuples, so that any two of them compare:       *)
(*   <<"None">>             None                                           *)
(*   <<"scalar", s, i>>     an object that is not a list (a number, a      *)
(*                          tuple, a class, a bool); s a name, i an index  *)
(*   <<"list", items>>      a list; items is a sequence of values          *)
(*   <<"dict", items>>      a dict; items is the sequence of <<key, value>>*)
(*                          pairs in iteration order, keys distinct        *)
(*   <<"container", class, init, values>>                                  *)
(*                          a solution or right-hand-side container of the *)
(*                          given class, created for init unknowns, with   *)
(*                          its value buffer                               *)
(* Python indices are 0-based, sequences here are 1-based: Python's v[i]   *)
(* is items[i + 1].                                                        *)
(***************************************************************************)
EXTENDS Integers, Sequences, FiniteSets, TLC

VARIABLES
    intsByValue,   \* the runtime: TRUE when `is` on two equal ints is true for every int
    dict,          \* SpecD2L: the argument of __dict_to_list
    ld,            \* SpecD2L: what __dict_to_list did with it
    descr,         \* the description step(description) was called with
    pc,            \* where step.__init__ is: "generate", "levels", "done", "failed"
    exc,           \* what ended step.__init__ early: "none" or the exception
    warned,        \* the single-level WARNING was printed
    descr_list,    \* __generate_hierarchy's descr_list
    l,             \* __generate_hierarchy's loop index
    heap,          \* the level objects created so far; a level is named by its position
    levels,        \* self.levels: the registered levels
    transfers,     \* the transfer objects created so far, named by position
    transfer_dict, \* self.__transfer_dict: (source, target) -> bound method
    params,        \* self.params
    status,        \* self.status
    self_prev,     \* self.__prev
    self_next,     \* self.__next
    invoked,       \* the transfer actions called so far, in order
    ret,           \* the last call that returns or raises something, and how it ended
    xfer,          \* SpecTransfer: the mesh_to_mesh_1d_dirichlet object
    field          \* SpecTransfer: the field handed to restrict_space or prolong_space

----------------------------------------------------------------------------
(* Bounds of the model *)

\* longest per-level list of the enumerated configurations
MaxLen == 3
\* most keys of a dictionary handed to __dict_to_list on its own
MaxKeys == 3
\* most levels a step holds, the ones registered after its construction included
MaxLevels == 4
\* most transfer calls made on one step
MaxCalls == 1
\* most unknowns of a coarse level
MaxCoarse == 3

----------------------------------------------------------------------------
(* Python values *)

None == <<"None">>
Sc(s, i) == <<"scalar", s, i>>
Lst(items) == <<"list", items>>
Dct(items) == <<"dict", items>>
Container(class, init, values) == <<"container", class, init, values>>
ClassOf(c) == c[2]
InitOf(c) == c[3]
Values(c) == c[4]

\* type(v) is list
IsList(v) == v[1] = "list"
\* len(v) of a list
PyLen(v) == Len(v[2])
\* v[i] of a list, i the Python index
PyItem(v, i) == v[2][i + 1]

\* k in d, d[k], and d[k] = v for the items of a dict
HasKey(items, k) == \E i \in 1..Len(items) : items[i][1] = k
GetKey(items, k) == items[CHOOSE i \in 1..Len(items) : items[i][1] = k][2]
SetKey(items, k, v) ==
    IF HasKey(items, k)
    THEN [i \in 1..Len(items) |-> IF items[i][1] = k THEN <<k, v>> ELSE items[i]]
    ELSE Append(items, <<k, v>>)
KeysOf(items) == {items[i][1] : i \in 1..Len(items)}

PyMax(a, b) == IF b > a THEN b ELSE a

\* CPython keeps one object per int in -5..256; a larger int is a new object
\* each time it is computed
SmallIntMax == 256
SmallInts == (0 - 5)..SmallIntMax

\* a is not b, for two ints that were computed separately: true when the values
\* differ; for equal values it is false when the runtime shares the object (a
\* cached small int, or a runtime whose ints have no identity of their own)
IsNot(a, b) ==
    \/ a # b
    \/ ~intsByValue /\ ~(a \in SmallInts /\ b \in SmallInts)

----------------------------------------------------------------------------
(* step.__dict_to_list *)

\* the first loop: the items from position i on, with max_val so far
RECURSIVE ScanMaxValWrongOrder(_, _, _)
ScanMaxValWrongOrder(items, i, max_val) ==
    IF i > Len(items) THEN [exit |-> FALSE, max_val |-> max_val]
    ELSE LET v == items[i][2] IN
         IF IsList(v)
         THEN IF PyLen(v) > 1 /\ (max_val > 1 /\ PyLen(v) < max_val)
              THEN [exit |-> TRUE, max_val |-> max_val]
              ELSE ScanMaxValWrongOrder(items, i + 1, PyMax(max_val, PyLen(v)))
         ELSE ScanMaxValWrongOrder(items, i + 1, max_val)

RECURSIVE ScanMaxVal(_, _, _)
ScanMaxVal(items, i, max_val) ==
    IF i > Len(items) THEN [exit |-> FALSE, max_val |-> max_val]
    ELSE LET v == items[i][2] IN
         IF IsList(v)
         THEN IF PyLen(v) > 1 /\ (max_val > 1 /\ IsNot(PyLen(v), max_val))
              THEN [exit |-> TRUE, max_val |-> max_val]
              ELSE ScanMaxVal(items, i + 1, PyMax(max_val, PyLen(v)))
         ELSE ScanMaxVal(items, i + 1, max_val)

\* ld[d][k] for the item <<k, v>>, d the Python index
ExpandedValue(v, d) ==
    IF ~IsList(v) THEN v
    ELSE IF PyLen(v) = 1 THEN PyItem(v, 0) ELSE PyItem(v, d)

\* the call: it returns ld, or ends in sys.exit, or in the IndexError of v[d]
dict_to_list(items) ==
    LET scan == ScanMaxVal(items, 1, 1) IN
    IF scan.exit THEN [outcome |-> "SystemExit", ld |-> <<>>]
    ELSE IF \E i \in 1..Len(items) :
                LET v == items[i][2] IN
                IsList(v) /\ PyLen(v) # 1 /\ PyLen(v) < scan.max_val
         THEN [outcome |-> "IndexError", ld |-> <<>>]
         ELSE [outcome |-> "return",
               ld |-> [d \in 1..scan.max_val |->
                         Dct([i \in 1..Len(items) |->
                                <<items[i][1], ExpandedValue(items[i][2], d - 1)>>])]]

----------------------------------------------------------------------------
(* step.__init__, lines 56-71: the attributes before the hierarchy is built *)

PyTrue == Sc("True", 0)
PyFalse == Sc("False", 0)

\* bool(v) of a value
Truthy(v) ==
    CASE v[1] = "None" -> FALSE
      [] v[1] = "scalar" -> v # PyFalse
      [] OTHER -> Len(v[2]) > 0

\* pars(step_params): maxiter is None unless step_params sets it
StepParams(d) == IF HasKey(d, "step_params") THEN GetKey(d, "step_params")[2] ELSE <<>>
Pars(d) == LET sp == StepParams(d) IN
           [k \in {"maxiter"} \cup KeysOf(sp) |-> IF HasKey(sp, k) THEN GetKey(sp, k) ELSE None]

NewStatus == [iter |-> None, stage |-> None, slot |-> None, first |-> None,
              last |-> None, pred_cnt |-> None, done |-> None, prev_done |-> None]

----------------------------------------------------------------------------
(* step.__generate_hierarchy *)

RequiredKeys == {"problem_class", "problem_params", "dtype_u", "dtype_f",
                 "sweeper_class", "sweeper_params", "level_params"}

\* lines 87-93: the asserts pass
RequiredKeysPresent(d) == \A k \in RequiredKeys : HasKey(d, k)

\* lines 97-106: the three parameter dictionaries are expanded, put back as lists
\* of dictionaries, and the description is expanded with them
Expand(d) ==
    LET pparams_list == dict_to_list(GetKey(d, "problem_params")[2])
        lparams_list == dict_to_list(GetKey(d, "level_params")[2])
        swparams_list == dict_to_list(GetKey(d, "sweeper_params")[2])
        failed(r) == r.outcome # "return"
        descr_new == SetKey(SetKey(SetKey(d,
                        "problem_params", Lst(pparams_list.ld)),
                        "level_params", Lst(lparams_list.ld)),
                        "sweeper_params", Lst(swparams_list.ld))
        expanded == dict_to_list(descr_new)
    IN  IF failed(pparams_list) THEN [outcome |-> pparams_list.outcome, descr_list |-> <<>>]
        ELSE IF failed(lparams_list) THEN [outcome |-> lparams_list.outcome, descr_list |-> <<>>]
        ELSE IF failed(swparams_list) THEN [outcome |-> swparams_list.outcome, descr_list |-> <<>>]
        ELSE [outcome |-> expanded.outcome, descr_list |-> expanded.ld]

\* lines 109-113: the sanity check of the transfer class
TransferCheckNone(d, dl) ==
    IF Len(dl) <= 1 /\ HasKey(d, "transfer_class") THEN "warning" ELSE "ok"

TransferCheck(d, dl) ==
    IF Len(dl) > 1
    THEN IF HasKey(d, "transfer_class") /\ HasKey(d, "transfer_params")
         THEN "ok" ELSE "AssertionError"
    ELSE IF HasKey(d, "transfer_class") THEN "warning" ELSE "ok"

DefaultHook == Sc("hookclass.hooks", 0)

\* the u of a new level: one slot per collocation node and one for the initial value
NumNodes == 2
NewU == [m \in 1..(NumNodes + 1) |-> None]

\* lines 119-143: the level built from descr_list[l]
NewLevel(cfg, lv) ==
    [id |-> <<"L", lv>>,
     problem_class |-> GetKey(cfg, "problem_class"),
     problem_params |-> IF HasKey(cfg, "problem_params")
                        THEN GetKey(cfg, "problem_params") ELSE Dct(<<>>),
     dtype_u |-> GetKey(cfg, "dtype_u"),
     dtype_f |-> GetKey(cfg, "dtype_f"),
     sweeper_class |-> GetKey(cfg, "sweeper_class"),
     sweeper_params |-> GetKey(cfg, "sweeper_params"),
     level_params |-> GetKey(cfg, "level_params"),
     hook_class |-> IF HasKey(cfg, "hook_class") THEN GetKey(cfg, "hook_class") ELSE DefaultHook,
     tau |-> None,
     u |-> NewU]

\* lines 125-128: the transfer parameters of descr_list[l]
TParamsWhole(d, cfg) ==
    IF HasKey(d, "transfer_params") THEN GetKey(d, "transfer_params") ELSE Dct(<<>>)

TParams(d, cfg) ==
    IF HasKey(cfg, "transfer_params") THEN GetKey(cfg, "transfer_params") ELSE Dct(<<>>)

----------------------------------------------------------------------------
(* step.register_level *)

\* level._level__add_tau: the tau of the level is allocated, one unset entry per node
AddTau(L) == [L EXCEPT !.tau = Lst([m \in 1..NumNodes |-> None])]

\* line 202: the level just appended is not the finest one
NotFinestOffByOne(lvls) == Len(lvls) > 0

NotFinest(lvls) == Len(lvls) > 1

\* the heap and the level list after register_level(L), L a new object
register_level(hp, lvls, L) ==
    LET ref == Len(hp) + 1
        appended == Append(lvls, ref)
    IN  [heap |-> Append(hp, IF NotFinest(appended) THEN AddTau(L) ELSE L),
         levels |-> appended]

----------------------------------------------------------------------------
(* step.connect_levels *)

\* transfer.__init__: params.finter is False unless the parameters set it
TransferPars(tparams) ==
    [finter |-> IF tparams[1] = "dict" /\ HasKey(tparams[2], "finter")
                THEN GetKey(tparams[2], "finter") ELSE PyFalse,
     given |-> tparams]

\* d[k] = v on the transfer dictionary
Store(td, k, v) == [x \in DOMAIN td \cup {k} |-> IF x = k THEN v ELSE td[x]]

\* line 222: which bound method goes in for (coarse, fine)
ProlongOpPlain(T) == "prolong"

ProlongOp(T) == IF Truthy(T.params.finter) THEN "prolong_f" ELSE "prolong"

\* the entry for (coarse, fine) stored under the key (fine, coarse) again
connect_levels_same_key(ts, td, transfer_class, transfer_params, fine_level, coarse_level) ==
    LET T == [class |-> transfer_class, fine_level |-> fine_level,
              coarse_level |-> coarse_level, params |-> TransferPars(transfer_params)]
        ref == Len(ts) + 1
    IN  [transfers |-> Append(ts, T),
         transfer_dict |->
            Store(Store(td, <<fine_level, coarse_level>>, [T |-> ref, op |-> "restrict"]),
                  <<fine_level, coarse_level>>, [T |-> ref, op |-> ProlongOp(T)])]

\* lines 218-225
connect_levels(ts, td, transfer_class, transfer_params, fine_level, coarse_level) ==
    LET T == [class |-> transfer_class, fine_level |-> fine_level,
              coarse_level |-> coarse_level, params |-> TransferPars(transfer_params)]
        ref == Len(ts) + 1
    IN  [transfers |-> Append(ts, T),
         transfer_dict |->
            Store(Store(td, <<fine_level, coarse_level>>, [T |-> ref, op |-> "restrict"]),
                  <<coarse_level, fine_level>>, [T |-> ref, op |-> ProlongOp(T)])]

----------------------------------------------------------------------------
(* The construction of a step, one action per part of __generate_hierarchy *)

opvars == <<params, status, self_prev, self_next, invoked, ret>>
d2lvars == <<intsByValue, dict, ld, xfer, field>>

\* lines 86-113: the asserts, the expansion and the transfer check
generate_hierarchy_expand ==
    /\ pc = "generate"
    /\ LET items == descr[2]
           e == Expand(items)
           check == TransferCheck(items, e.descr_list)
       IN  IF ~RequiredKeysPresent(items)
           THEN pc' = "failed" /\ exc' = "AssertionError" /\ UNCHANGED <<descr_list, warned>>
           ELSE IF e.outcome # "return"
           THEN pc' = "failed" /\ exc' = e.outcome /\ UNCHANGED <<descr_list, warned>>
           ELSE IF check = "AssertionError"
           THEN pc' = "failed" /\ exc' = "AssertionError" /\ UNCHANGED <<descr_list, warned>>
           ELSE /\ pc' = "levels"
                /\ descr_list' = e.descr_list
                /\ warned' = (check = "warning")
                /\ exc' = exc
    /\ UNCHANGED <<descr, l, heap, levels, transfers, transfer_dict>>
    /\ UNCHANGED opvars
    /\ UNCHANGED d2lvars

\* lines 116-151: one pass of the loop; the pass for the last level ends __init__
generate_hierarchy_level ==
    /\ pc = "levels"
    /\ l < Len(descr_list)
    /\ LET cfg == descr_list[l + 1][2]
           reg == register_level(heap, levels, NewLevel(cfg, l))
       IN  /\ heap' = reg.heap
           /\ levels' = reg.levels
           /\ IF l > 0 /\ ~HasKey(cfg, "transfer_class")
              THEN /\ pc' = "failed"
                   /\ exc' = "KeyError"
                   /\ UNCHANGED <<l, transfers, transfer_dict>>
              ELSE /\ IF l > 0
                      THEN LET con == connect_levels(transfers, transfer_dict,
                                          GetKey(cfg, "transfer_class"), TParams(descr[2], cfg),
                                          reg.levels[l], reg.levels[l + 1])
                           IN  /\ transfers' = con.transfers
                               /\ transfer_dict' = con.transfer_dict
                      ELSE UNCHANGED <<transfers, transfer_dict>>
                   /\ l' = l + 1
                   /\ pc' = IF l + 1 = Len(descr_list) THEN "done" ELSE "levels"
                   /\ exc' = exc
    /\ UNCHANGED <<descr, descr_list, warned>>
    /\ UNCHANGED opvars
    /\ UNCHANGED d2lvars

----------------------------------------------------------------------------
(* mesh_to_mesh_1d_dirichlet *)

\* Numbers are counted in quarters, so that the halves and quarters of the
\* restriction stay integers: Unit is 1.0
Unit == 4

\* np.eye(n)
Eye(n) == [r \in 1..n |-> [c \in 1..n |-> IF r = c THEN Unit ELSE 0]]

\* th.interpolation_matrix_1d_dirichlet_null(fine_grid, coarse_grid, k) for nf fine
\* and nc coarse points, nf = 2 * nc + 1: fine point 2j is coarse point j, the fine
\* points beside it get half of it (one row per fine point)
InterpolationMatrix(nf, nc) ==
    [r \in 1..nf |-> [c \in 1..nc |->
        IF r = 2 * c THEN Unit
        ELSE IF r = 2 * c - 1 \/ r = 2 * c + 1 THEN Unit \div 2 ELSE 0]]

\* M.T and 0.5 * M
Transposed(M, rows, cols) == [c \in 1..cols |-> [r \in 1..rows |-> M[r][c]]]
Halved(M) == [r \in 1..Len(M) |-> [c \in 1..Len(M[r]) |-> M[r][c] \div 2]]

RECURSIVE SumTo(_, _, _)
SumTo(row, v, n) == IF n = 0 THEN 0 ELSE SumTo(row, v, n - 1) + row[n] * v[n]

\* M.dot(v); numpy refuses a vector that does not have one entry per column
DotFits(M, v) == \A r \in 1..Len(M) : Len(M[r]) = Len(v)
Dot(M, v) == [r \in 1..Len(M) |-> SumTo(M[r], v, Len(v)) \div Unit]

\* the prob of a level, as far as the transfer reads it
Prob(dtype_u, dtype_f, nvars) == [dtype_u |-> dtype_u, dtype_f |-> dtype_f, nvars |-> nvars]

\* __init__, lines 35-51; transfer.__init__ takes init_f and init_c from the two levels
mesh_to_mesh_1d_dirichlet(fine_prob, coarse_prob) ==
    LET init_f == fine_prob.nvars
        init_c == coarse_prob.nvars
    IN  [fine_level |-> [prob |-> fine_prob],
         coarse_level |-> [prob |-> coarse_prob],
         init_f |-> init_f,
         init_c |-> init_c,
         Rspace |-> IF init_c = init_f THEN Eye(init_c)
                    ELSE Halved(Transposed(InterpolationMatrix(init_f, init_c), init_f, init_c)),
         Pspace |-> IF init_f = init_c THEN Eye(init_f)
                    ELSE InterpolationMatrix(init_f, init_c)]

\* isinstance(F, class)
IsInstance(F, class) == F[1] = "container" /\ ClassOf(F) = class

\* dtype(init, val=0) followed by the assignment of values
Filled(class, init, values) == Container(class, init, values)

Returned(op, v) == [op |-> op, exc |-> "none", val |-> v]
Raised(op, e) == [op |-> op, exc |-> e, val |-> None]

\* restrict_space, lines 56-72
restrict_space(T, F) ==
    IF IsInstance(F, T.fine_level.prob.dtype_u)
    THEN IF DotFits(T.Rspace, Values(F))
         THEN Returned("restrict_space",
                       Filled(T.fine_level.prob.dtype_u, T.init_c, Dot(T.Rspace, Values(F))))
         ELSE Raised("restrict_space", "ValueError")
    ELSE IF IsInstance(F, T.fine_level.prob.dtype_f)
    THEN IF DotFits(T.Rspace, Values(F))
         THEN Returned("restrict_space",
                       Filled(T.fine_level.prob.dtype_f, T.init_c, Dot(T.Rspace, Values(F))))
         ELSE Raised("restrict_space", "ValueError")
    ELSE Returned("restrict_space", None)

\* prolong_space, lines 74-89
prolong_space(T, G) ==
    IF IsInstance(G, T.coarse_level.prob.dtype_u)
    THEN IF DotFits(T.Pspace, Values(G))
         THEN Returned("prolong_space",
                       Filled(T.coarse_level.prob.dtype_u, T.init_c, Dot(T.Pspace, Values(G))))
         ELSE Raised("prolong_space", "ValueError")
    ELSE IF IsInstance(G, T.coarse_level.prob.dtype_f)
    THEN IF DotFits(T.Pspace, Values(G))
         THEN Returned("prolong_space",
                       Filled(T.coarse_level.prob.dtype_f, T.init_c, Dot(T.Pspace, Values(G))))
         ELSE Raised("prolong_space", "ValueError")
    ELSE Returned("prolong_space", None)

----------------------------------------------------------------------------
(* Inputs *)

\* a value that is not a list, and the per-level list of n values, of key k
Shared(k) == Sc(k, 0 - 1)
PerLevel(k, n) == Lst([i \in 1..n |-> Sc(k, i - 1)])

\* a list one longer than the small ints reach
LongLen == SmallIntMax + 1

\* the values key k takes: shared, or a list of 0..MaxLen or of LongLen values
ValuesOf(k, lens) == {Shared(k)} \cup {PerLevel(k, n) : n \in lens}

\* the dictionaries over keys taken from ks in every order, at most n of them
RECURSIVE DictsOver(_, _, _)
DictsOver(ks, lens, n) ==
    IF n = 0 \/ ks = {} THEN {<<>>}
    ELSE {<<>>} \cup
         UNION {UNION {{<<(<<k, v>>)>> \o rest : rest \in DictsOver(ks \ {k}, lens, n - 1)}
                       : v \in ValuesOf(k, lens)} : k \in ks}

D2LKeys == {"nvars", "cadv", "cs"}
D2LInputs == DictsOver(D2LKeys, (0..MaxLen) \cup {LongLen}, MaxKeys)

----------------------------------------------------------------------------
(* Descriptions *)

MeshU == Sc("mesh", 0)
MeshF == Sc("rhs_imex_mesh", 0)

\* the description with the given parameter dictionaries; tc: a transfer class is
\* given; tp: the transfer parameters, None when not given; without the key missing
Description(pp, lp, sp, tc, tp, stp, missing) ==
    LET all == << <<"problem_class", Sc("problem", 0)>>,
                  <<"problem_params", Dct(pp)>>,
                  <<"dtype_u", MeshU>>,
                  <<"dtype_f", MeshF>>,
                  <<"sweeper_class", Sc("sweeper", 0)>>,
                  <<"sweeper_params", Dct(sp)>>,
                  <<"level_params", Dct(lp)>> >>
               \o (IF stp = None THEN <<>> ELSE << <<"step_params", stp>> >>)
               \o (IF tc THEN << <<"transfer_class", Sc("mesh_to_mesh_1d_dirichlet", 0)>> >>
                   ELSE <<>>)
               \o (IF tp = None THEN <<>> ELSE << <<"transfer_params", tp>> >>)
    IN  Dct(SelectSeq(all, LAMBDA it : it[1] # missing))

Finter(b) == <<"finter", IF b THEN PyTrue ELSE PyFalse>>

\* SpecBuild: both problem parameters in either order, each shared or per level
BuildProblemParams == {d \in DictsOver({"nvars", "cadv"}, 1..MaxLen, 2) : Len(d) = 2}
BuildLevelParams == {<< <<"restol", v>> >> : v \in ValuesOf("restol", 1..MaxLen)}
BuildSweeperParams == {<< <<"num_nodes", v>> >> : v \in ValuesOf("num_nodes", 1..MaxLen)}
\* transfer parameters given per level: finter set for every second level
FinterPerLevel(n) == Lst([i \in 1..n |-> Dct(<<Finter(i % 2 = 0)>>)])

BuildTransferParams ==
    {None, Dct(<<>>), Dct(<<Finter(FALSE)>>), Dct(<<Finter(TRUE)>>),
     Lst(<<Dct(<<Finter(TRUE)>>), Dct(<<Finter(FALSE)>>)>>), FinterPerLevel(MaxLen)}
    \cup {Dct(<<Finter(FALSE), <<"rorder", PerLevel("rorder", n)>> >>) : n \in 2..MaxLen}

BuildDescriptions ==
    {Description(pp, lp, sp, tc, tp, None, missing) :
        pp \in BuildProblemParams, lp \in BuildLevelParams, sp \in BuildSweeperParams,
        tc \in BOOLEAN, tp \in BuildTransferParams, missing \in RequiredKeys \cup {"none"}}

\* Spec: descriptions that build 1..MaxLen levels
OpsDescription(v, b, stp) ==
    Description(<< <<"nvars", v>> >>, << <<"restol", Shared("restol")>> >>,
                << <<"num_nodes", PerLevel("num_nodes", 1)>> >>, TRUE, Dct(<<Finter(b)>>),
                stp, "none")
OpsDescriptions ==
    {OpsDescription(v, b, None) : v \in ValuesOf("nvars", 1..MaxLen), b \in BOOLEAN}
    \cup {OpsDescription(Shared("nvars"), FALSE, Dct(<< <<"maxiter", Sc("50", 0)>> >>))}

----------------------------------------------------------------------------
(* Initial states *)

Pending == [outcome |-> "pending", ld |-> <<>>]
NoCall == [op |-> "none", exc |-> "none", val |-> None]

\* lines 56-71 of step.__init__ have run for description d
StepNew(d) ==
    /\ descr = d
    /\ pc = "generate"
    /\ exc = "none"
    /\ warned = FALSE
    /\ descr_list = <<>>
    /\ l = 0
    /\ heap = <<>>
    /\ levels = <<>>
    /\ transfers = <<>>
    /\ transfer_dict = <<>>
    /\ params = Pars(d[2])
    /\ status = NewStatus
    /\ self_prev = None
    /\ self_next = None
    /\ invoked = <<>>
    /\ ret = NoCall

\* the runtime is CPython; no int beyond the small ints is compared below
D2LUnused ==
    /\ intsByValue = FALSE
    /\ dict = <<>>
    /\ ld = Pending

TransferUnused ==
    /\ xfer = None
    /\ field = None

Init ==
    /\ D2LUnused
    /\ TransferUnused
    /\ \E d \in OpsDescriptions : StepNew(d)

InitBuild ==
    /\ D2LUnused
    /\ TransferUnused
    /\ \E d \in BuildDescriptions : StepNew(d)

InitD2L ==
    /\ intsByValue \in BOOLEAN
    /\ dict \in D2LInputs
    /\ ld = Pending
    /\ TransferUnused
    /\ StepNew(Dct(<<>>))

----------------------------------------------------------------------------
(* SpecD2L: __dict_to_list called on its own *)

stepvars == <<descr, pc, exc, warned, descr_list, l, heap, levels, transfers,
              transfer_dict>>

Call_dict_to_list ==
    /\ ld = Pending
    /\ ld' = dict_to_list(dict)
    /\ UNCHANGED <<intsByValue, dict, xfer, field>>
    /\ UNCHANGED stepvars
    /\ UNCHANGED opvars

----------------------------------------------------------------------------
(* SpecTransfer: restrict_space and prolong_space called on a transfer object *)

\* the unknowns of a coarse level and of the fine level above it: as many, or the
\* points in between and at both ends added
LevelSizes == {<<nc, nc>> : nc \in 1..MaxCoarse} \cup {<<2 * nc + 1, nc>> : nc \in 1..MaxCoarse}

\* the solution and the right-hand-side type of a problem: two classes, or one
DtypePairs == {<<MeshU, MeshF>>, <<MeshU, MeshU>>}

\* the fields handed in: of either type or of neither, with n values
FieldClasses == {MeshU, MeshF, Sc("ndarray", 0)}
Ramp(n) == [m \in 1..n |-> m * Unit]
Flat(n) == [m \in 1..n |-> Unit]
FieldsOf(n) == {Container(c, n, v) : c \in FieldClasses, v \in {Ramp(n), Flat(n)}}

InitTransfer ==
    /\ D2LUnused
    /\ StepNew(Dct(<<>>))
    /\ \E sz \in LevelSizes, dt \in DtypePairs :
          /\ xfer = mesh_to_mesh_1d_dirichlet(Prob(dt[1], dt[2], sz[1]), Prob(dt[1], dt[2], sz[2]))
          /\ field \in FieldsOf(sz[1]) \cup FieldsOf(sz[2])

call_restrict_space ==
    /\ ret = NoCall
    /\ ret' = restrict_space(xfer, field)
    /\ UNCHANGED <<params, status, self_prev, self_next, invoked>>
    /\ UNCHANGED stepvars
    /\ UNCHANGED d2lvars

call_prolong_space ==
    /\ ret = NoCall
    /\ ret' = prolong_space(xfer, field)
    /\ UNCHANGED <<params, status, self_prev, self_next, invoked>>
    /\ UNCHANGED stepvars
    /\ UNCHANGED d2lvars

----------------------------------------------------------------------------
(* The calls made on a step once it is built *)

Built == pc = "done"

\* step.transfer(source, target), lines 229-240
LookupAny(td, key) == IF DOMAIN td = {} THEN [found |-> FALSE, action |-> None]
                      ELSE [found |-> TRUE, action |-> td[CHOOSE k \in DOMAIN td : TRUE]]

Lookup(td, key) == IF key \in DOMAIN td THEN [found |-> TRUE, action |-> td[key]]
                   ELSE [found |-> FALSE, action |-> None]

transfer(source, target) ==
    /\ Built
    /\ Len(invoked) < MaxCalls
    /\ LET got == Lookup(transfer_dict, <<source, target>>)
       IN  IF got.found
           THEN /\ invoked' = Append(invoked, got.action)
                /\ ret' = [op |-> "transfer", exc |-> "none", val |-> None]
           ELSE /\ invoked' = invoked
                /\ ret' = [op |-> "transfer", exc |-> "KeyError", val |-> None]
    /\ UNCHANGED <<params, status, self_prev, self_next>>
    /\ UNCHANGED stepvars
    /\ UNCHANGED d2lvars

\* level.reset_level: the values at the nodes are unset again
ResetLevel(L) == [L EXCEPT !.u = NewU]

\* step.reset_step, lines 243-249
reset_step ==
    /\ Built
    /\ heap' = [r \in 1..Len(heap) |->
                  IF \E m \in 1..Len(levels) : levels[m] = r THEN ResetLevel(heap[r])
                  ELSE heap[r]]
    /\ UNCHANGED <<descr, pc, exc, warned, descr_list, l, levels, transfers, transfer_dict>>
    /\ UNCHANGED opvars
    /\ UNCHANGED d2lvars

\* the initial values handed to init_step: solution containers
U0s == {Container(MeshU, 2, <<1, 2>>), Container(MeshU, 2, <<3, 4>>)}

\* P.dtype_u(u0): a new container of the problem's solution type with u0's values
DtypeU(L, u0) == Container(L.dtype_u, InitOf(u0), Values(u0))

\* lines 266-267: the heap after the write of u0
WriteU0Coarsest(hp, lvls, u0) ==
    LET ref == lvls[Len(lvls)] IN
    [hp EXCEPT ![ref].u[1] = DtypeU(hp[ref], u0)]

WriteU0(hp, lvls, u0) ==
    LET ref == lvls[1] IN
    [hp EXCEPT ![ref].u[1] = DtypeU(hp[ref], u0)]

\* step.init_step(u0), lines 252-267
init_step(u0) ==
    /\ Built
    /\ IF Len(levels) >= 1 /\ Len(heap[levels[1]].u) >= 1
       THEN /\ heap' = WriteU0(heap, levels, u0)
            /\ ret' = [op |-> "init_step", exc |-> "none", val |-> None]
       ELSE /\ heap' = heap
            /\ ret' = [op |-> "init_step", exc |-> "AssertionError", val |-> None]
    /\ UNCHANGED <<descr, pc, exc, warned, descr_list, l, levels, transfers, transfer_dict>>
    /\ UNCHANGED <<params, status, self_prev, self_next, invoked>>
    /\ UNCHANGED d2lvars

\* the steps a controller links this one to
Refs == {None, Sc("step", 1), Sc("step", 2)}

\* the prev property, lines 269-286
prev_get == self_prev

prev_set(p) ==
    /\ Built
    /\ self_prev' = p
    /\ UNCHANGED <<params, status, self_next, invoked, ret>>
    /\ UNCHANGED stepvars
    /\ UNCHANGED d2lvars

\* the next property, lines 288-304
next_get == self_prev

next_set(p) ==
    /\ Built
    /\ self_next' = p
    /\ UNCHANGED <<params, status, self_prev, invoked, ret>>
    /\ UNCHANGED stepvars
    /\ UNCHANGED d2lvars

\* a controller marks the step done in its status record (line 63: a plain attribute)
status_done ==
    /\ Built
    /\ status.done # PyTrue
    /\ status' = [status EXCEPT !.done = PyTrue]
    /\ UNCHANGED <<params, self_prev, self_next, invoked, ret>>
    /\ UNCHANGED stepvars
    /\ UNCHANGED d2lvars

\* step.register_level(L) called on the built step with one more, new level
register_more ==
    /\ Built
    /\ Len(levels) < MaxLevels
    /\ LET reg == register_level(heap, levels, NewLevel(descr_list[1][2], Len(levels)))
       IN  heap' = reg.heap /\ levels' = reg.levels
    /\ UNCHANGED <<descr, pc, exc, warned, descr_list, l, transfers, transfer_dict>>
    /\ UNCHANGED opvars
    /\ UNCHANGED d2lvars

----------------------------------------------------------------------------
(* Specifications *)

vars == <<intsByValue, dict, ld, xfer, field, descr, pc, exc, warned, descr_list, l, heap, levels,
          transfers, transfer_dict, params, status, self_prev, self_next, invoked, ret>>

NextD2L == Call_dict_to_list

NextBuild ==
    \/ generate_hierarchy_expand
    \/ generate_hierarchy_level

Next ==
    \/ generate_hierarchy_expand
    \/ generate_hierarchy_level
    \/ \E source \in 1..Len(heap), target \in 1..Len(heap) : transfer(source, target)
    \/ reset_step
    \/ \E u0 \in U0s : init_step(u0)
    \/ status_done
    \/ register_more

NextLinks ==
    \/ generate_hierarchy_expand
    \/ generate_hierarchy_level
    \/ \E p \in Refs : prev_set(p)
    \/ \E p \in Refs : next_set(p)
    \/ status_done

NextTransfer ==
    \/ call_restrict_space
    \/ call_prolong_space

\* restrict_space and prolong_space applied to fields of every kind
SpecTransfer == InitTransfer /\ [][NextTransfer]_vars

\* __dict_to_list applied to dictionaries of every shape
SpecD2L == InitD2L /\ [][NextD2L]_vars

\* the construction of a step from descriptions of every shape
SpecBuild == InitBuild /\ [][NextBuild]_vars

\* a step built from a well-formed description, and the calls made on it
Spec == Init /\ [][Next]_vars

\* a step built from a well-formed description, and a controller linking it
SpecLinks == Init /\ [][NextLinks]_vars

----------------------------------------------------------------------------
(* Claims about __dict_to_list *)

ListLens(items) == {PyLen(items[i][2]) : i \in {j \in 1..Len(items) : IsList(items[j][2])}}

\* the hierarchy width of a dictionary: its longest list, 1 without one
SetMax(S) == IF S = {} THEN 1
             ELSE LET x == CHOOSE y \in S : \A z \in S : z <= y IN PyMax(1, x)
Width(items) == SetMax(ListLens(items))

\* every list has length 1 or the width
Uniform(items) == \A n \in ListLens(items) : n = 1 \/ n = Width(items)

\* ld is the expansion of items that C1 describes
IsExpansion(items, out) ==
    /\ Len(out) = Width(items)
    /\ \A d \in 1..Len(out) :
          /\ out[d][1] = "dict"
          /\ KeysOf(out[d][2]) = KeysOf(items)
          /\ Len(out[d][2]) = Len(items)
          /\ \A i \in 1..Len(items) :
                LET k == items[i][1]
                    v == items[i][2]
                    w == GetKey(out[d][2], k)
                IN  /\ ~IsList(v) => w = v
                    /\ IsList(v) /\ PyLen(v) = 1 => w = PyItem(v, 0)
                    /\ IsList(v) /\ PyLen(v) # 1 => w = PyItem(v, d - 1)
                    /\ IsList(v) => ~IsList(w)

\* C1: a dictionary whose lists all have length 1 or N expands to exactly N
\* dictionaries with the keys of the input, dictionary i holding the value itself,
\* v[0] or v[i], and no list of the input left in them.
C1_Claim ==
    (ld # Pending /\ Uniform(dict)) =>
        (ld.outcome = "return" /\ IsExpansion(dict, ld.ld))

\* the same with N within the ints the runtime keeps one object of
C1_SmallWidth ==
    (ld # Pending /\ Uniform(dict) /\ Width(dict) \in SmallInts) =>
        (ld.outcome = "return" /\ IsExpansion(dict, ld.ld))

----------------------------------------------------------------------------
(* Claims about the construction of a step *)

ParamKeys == {"problem_params", "level_params", "sweeper_params"}

\* the lengths of the lists inside the problem, level and sweeper parameters
SubDictLens(d) ==
    UNION {ListLens(GetKey(d, k)[2]) : k \in {x \in ParamKeys : HasKey(d, x)}}

\* the lengths of the lists inside the transfer parameters
TransferLens(d) ==
    IF HasKey(d, "transfer_params") /\ GetKey(d, "transfer_params")[1] = "dict"
    THEN ListLens(GetKey(d, "transfer_params")[2]) ELSE {}

\* two lists of the problem, level and sweeper parameters are longer than 1 and
\* differ in length
TwoLengths(d) == \E a \in SubDictLens(d), b \in SubDictLens(d) : a > 1 /\ b > 1 /\ a # b

NothingBuilt ==
    /\ heap = <<>>
    /\ levels = <<>>
    /\ transfers = <<>>
    /\ DOMAIN transfer_dict = {}

\* C2: a description with two lists of different lengths, both longer than 1, among
\* the problem, level and sweeper parameters is rejected by sys.exit before any level
\* is built, in whatever order the keys are visited and whether the two lists are in
\* one parameter dictionary or in two.
C2_Rejected ==
    (pc # "generate" /\ RequiredKeysPresent(descr[2]) /\ TwoLengths(descr[2])) =>
        (pc = "failed" /\ exc = "SystemExit" /\ NothingBuilt)

\* the two lists sit in different dictionaries: nvars has MaxLen values, restol two
C2_Witness ==
    /\ pc = "failed"
    /\ exc = "SystemExit"
    /\ RequiredKeysPresent(descr[2])
    /\ ListLens(GetKey(descr[2], "problem_params")[2]) = {MaxLen}
    /\ ListLens(GetKey(descr[2], "level_params")[2]) = {2}
    /\ ListLens(GetKey(descr[2], "sweeper_params")[2]) \subseteq {1}

AdjacentKeys(lvls) ==
    {<<lvls[m], lvls[m + 1]>> : m \in 1..(Len(lvls) - 1)}
    \cup {<<lvls[m + 1], lvls[m]>> : m \in 1..(Len(lvls) - 1)}

\* C3: a step built from a description that expands to N levels has a transfer
\* table of exactly 2 * (N - 1) entries, the two ordered pairs of every two adjacent
\* levels and no other pair; for N = 1 the table is empty.
C3_TransferTable ==
    pc = "done" =>
        /\ Len(levels) = Len(descr_list)
        /\ DOMAIN transfer_dict = AdjacentKeys(levels)
        /\ Cardinality(DOMAIN transfer_dict) = 2 * (Len(levels) - 1)
        /\ \A a \in 1..Len(levels), b \in 1..Len(levels) :
              (a - b \notin {1, 0 - 1}) => <<levels[a], levels[b]>> \notin DOMAIN transfer_dict

C3_Witness ==
    /\ pc = "done"
    /\ Len(levels) = MaxLen
    /\ Cardinality(DOMAIN transfer_dict) = 2 * (MaxLen - 1)

\* the width the code gives the hierarchy: the longest list among the problem, level
\* and sweeper parameters and the entries of the description itself
BuiltWidth(d) == SetMax(SubDictLens(d) \cup ListLens(d))

\* the width with the lists inside the transfer parameters counted too
ClaimedWidth(d) == SetMax(SubDictLens(d) \cup ListLens(d) \cup TransferLens(d))

\* the transfer parameters with every list replaced by its element for level lv
TParamsOfLevel(d, lv) ==
    LET tp == GetKey(d, "transfer_params") IN
    IF tp[1] = "dict"
    THEN Dct([m \in 1..Len(tp[2]) |-> <<tp[2][m][1], ExpandedValue(tp[2][m][2], lv)>>])
    ELSE ExpandedValue(tp, lv)

\* the transfer parameters as given, or the element for level lv when the
\* description holds a list of them
TParamsAsGiven(d, lv) ==
    LET tp == GetKey(d, "transfer_params") IN
    IF tp[1] = "list" THEN ExpandedValue(tp, lv) ELSE tp

\* C7 as stated: the number of levels is the longest list of the whole description,
\* the lists inside the transfer parameters included, and the transfer between
\* level l-1 and level l gets the l-th element of such a list.
C7_Claim ==
    pc = "done" =>
        /\ Len(levels) = ClaimedWidth(descr[2])
        /\ \A t \in 1..Len(transfers) :
              transfers[t].params.given = TParamsOfLevel(descr[2], t)

\* C7, amended: the number of levels is the longest list among the keys of the
\* problem, level and sweeper parameters and the entries of the description itself;
\* a list inside the transfer parameters adds no level, and every transfer gets the
\* transfer parameters whole (the l-th element only when the description holds a
\* list of transfer parameters).
C7_Width ==
    pc = "done" =>
        /\ Len(levels) = BuiltWidth(descr[2])
        /\ Len(transfers) = Len(levels) - 1
        /\ \A t \in 1..Len(transfers) :
              transfers[t].params.given = TParamsAsGiven(descr[2], t)

\* MaxLen levels are built although the transfer parameters hold a list of two
C7_Witness ==
    /\ pc = "done"
    /\ Len(levels) = MaxLen
    /\ TransferLens(descr[2]) = {2}
    /\ transfers[1].params.given = GetKey(descr[2], "transfer_params")
    /\ IsList(GetKey(transfers[1].params.given[2], "rorder"))

\* a description the construction has to refuse
ConfigError(d) ==
    \/ ~RequiredKeysPresent(d)
    \/ TwoLengths(d)
    \/ BuiltWidth(d) > 1 /\ ~(HasKey(d, "transfer_class") /\ HasKey(d, "transfer_params"))

\* C8: a missing required key, inconsistent list lengths, and more than one level
\* without transfer class or transfer parameters each end the construction before
\* any level is created or registered and before any transfer is installed; a
\* construction that failed has built nothing.
C8_NothingBuilt ==
    /\ pc = "failed" => NothingBuilt
    /\ (ConfigError(descr[2]) /\ pc # "generate") => pc = "failed"

\* several levels asked for and no transfer class given
C8_Witness ==
    /\ pc = "failed"
    /\ exc = "AssertionError"
    /\ RequiredKeysPresent(descr[2])
    /\ BuiltWidth(descr[2]) = MaxLen
    /\ ~HasKey(descr[2], "transfer_class")
    /\ NothingBuilt

----------------------------------------------------------------------------
(* Claims about the calls on a step *)

\* C4: whatever levels have been registered, tau is allocated on levels[i] exactly
\* when i > 0: never on the level registered first, and on every later one from
\* its registration on.
C4_Tau ==
    \A m \in 1..Len(levels) : (heap[levels[m]].tau # None) <=> (m > 1)

\* a level registered after the construction of MaxLen levels
C4_Witness ==
    /\ Len(descr_list) = MaxLen
    /\ Len(levels) = MaxLen + 1
    /\ heap[levels[1]].tau = None
    /\ heap[levels[Len(levels)]].tau # None

\* C5: after step.next = p, step.next is p and step.prev is what it was; after
\* step.prev = q, step.prev is q and step.next is what it was.
C5_Claim ==
    [][/\ \A p \in Refs : next_set(p) => (next_get' = p /\ prev_get' = prev_get)
       /\ \A q \in Refs : prev_set(q) => (prev_get' = q /\ next_get' = next_get)]_vars

\* C9: transfer(source, target) calls the action registered for (source, target)
\* once and nothing else; for a pair without an action (two levels that are not
\* adjacent, or the same level twice) it ends in a KeyError, calls no action and
\* leaves the transfer table and the levels as they were.
C9_Transfer ==
    [][\A s \in 1..Len(heap), t \in 1..Len(heap) :
          transfer(s, t) =>
             /\ <<s, t>> \in DOMAIN transfer_dict =>
                   /\ invoked' = Append(invoked, transfer_dict[<<s, t>>])
                   /\ ret'.exc = "none"
             /\ <<s, t>> \notin DOMAIN transfer_dict =>
                   /\ ret'.exc = "KeyError"
                   /\ invoked' = invoked
             /\ (\E a \in 1..Len(levels), b \in 1..Len(levels) :
                    levels[a] = s /\ levels[b] = t /\ a - b \notin {1, 0 - 1}) =>
                   ret'.exc = "KeyError"
             /\ transfer_dict' = transfer_dict
             /\ levels' = levels
             /\ heap' = heap]_vars

\* a call for a pair without an action on a step of three levels or more
C9_Witness ==
    /\ ret.op = "transfer"
    /\ ret.exc = "KeyError"
    /\ Len(levels) >= 3
    /\ invoked = <<>>
    /\ DOMAIN transfer_dict # {}

\* every slot of every level but slot 0 of levels[0] is as it was
OtherSlotsKept ==
    /\ Len(heap') = Len(heap)
    /\ \A r \in 1..Len(heap) :
          /\ [heap'[r] EXCEPT !.u = NewU] = [heap[r] EXCEPT !.u = NewU]
          /\ Len(heap'[r].u) = Len(heap[r].u)
          /\ \A m \in 1..Len(heap[r].u) :
                (r # levels[1] \/ m # 1) => heap'[r].u[m] = heap[r].u[m]

\* C10: init_step(u0) needs a level and a node slot on the finest level, and ends in
\* an AssertionError without them; otherwise it puts a solution container with the
\* values of u0 in slot 0 of levels[0] and changes no other slot, no other level,
\* not the transfer table and not the status.
C10_InitStep ==
    [][\A u0 \in U0s :
          init_step(u0) =>
             /\ levels' = levels /\ transfer_dict' = transfer_dict /\ status' = status
             /\ transfers' = transfers
             /\ IF Len(levels) >= 1 /\ Len(heap[levels[1]].u) >= 1
                THEN /\ ret'.exc = "none"
                     /\ heap'[levels[1]].u[1][1] = "container"
                     /\ Values(heap'[levels[1]].u[1]) = Values(u0)
                     /\ ClassOf(heap'[levels[1]].u[1]) = heap[levels[1]].dtype_u
                     /\ OtherSlotsKept
                ELSE ret'.exc = "AssertionError" /\ heap' = heap]_vars

\* u0 written on a step of several levels whose status a controller has set
C10_Witness ==
    /\ ret.op = "init_step"
    /\ ret.exc = "none"
    /\ Len(levels) >= 2
    /\ heap[levels[1]].u[1] = Container(MeshU, 2, <<3, 4>>)
    /\ \A m \in 2..Len(levels) : heap[levels[m]].u = NewU
    /\ status.done = PyTrue

----------------------------------------------------------------------------
(* Claims about the transfer *)

\* the field is neither a solution nor a right-hand-side container of the level
ForeignTo(F, prob) == ~IsInstance(F, prob.dtype_u) /\ ~IsInstance(F, prob.dtype_f)

\* C6: restrict and prolong end in a TypeError, and never return, when the field is
\* neither of the level's solution type nor of its right-hand-side type.
C6_Claim ==
    /\ (ret.op = "restrict_space" /\ ForeignTo(field, xfer.fine_level.prob)) =>
            ret.exc = "TypeError"
    /\ (ret.op = "prolong_space" /\ ForeignTo(field, xfer.coarse_level.prob)) =>
            ret.exc = "TypeError"

\* the field is a solution or a right-hand-side container of the level, created for
\* n unknowns
FieldOf(F, prob, n) == ~ForeignTo(F, prob) /\ InitOf(F) = n /\ Len(Values(F)) = n

\* the call returned a new container of the class of the field, created for n
\* unknowns, that carries M . values
Carries(r, F, n, M) ==
    /\ r.exc = "none"
    /\ IsInstance(r.val, ClassOf(F))
    /\ InitOf(r.val) = n
    /\ Values(r.val) = Dot(M, Values(F))

\* C11: restrict applied to a field of the fine level returns a new container of the
\* kind of the field, created for the unknowns of the coarse level and carrying
\* R . values; prolong applied to a field of the coarse level returns a new container
\* of the kind of the field, created for the unknowns of the fine level and carrying
\* P . values, whether the two levels have as many unknowns or not.
C11_Claim ==
    /\ (ret.op = "restrict_space" /\ FieldOf(field, xfer.fine_level.prob, xfer.init_f)) =>
            Carries(ret, field, xfer.init_c, xfer.Rspace)
    /\ (ret.op = "prolong_space" /\ FieldOf(field, xfer.coarse_level.prob, xfer.init_c)) =>
            Carries(ret, field, xfer.init_f, xfer.Pspace)

\* the half of C11 about restrict
C11_Restrict ==
    (ret.op = "restrict_space" /\ FieldOf(field, xfer.fine_level.prob, xfer.init_f)) =>
        Carries(ret, field, xfer.init_c, xfer.Rspace)

\* what prolong does: the container is created for the unknowns of the coarse level
\* and then given the P . values of the fine level
C11_ProlongAsBuilt ==
    (ret.op = "prolong_space" /\ FieldOf(field, xfer.coarse_level.prob, xfer.init_c)) =>
        /\ Carries(ret, field, xfer.init_c, xfer.Pspace)
        /\ Len(Values(ret.val)) = xfer.init_f

\* a coarse field prolonged to a fine level of more unknowns
C11_Unequal ==
    /\ ret.op = "prolong_space"
    /\ ret.exc = "none"
    /\ xfer.init_f > xfer.init_c
    /\ FieldOf(field, xfer.coarse_level.prob, xfer.init_c)
    /\ InitOf(ret.val) # Len(Values(ret.val))

----------------------------------------------------------------------------
(* Claims about the connection of levels *)

\* the transfer objects created for the fine level f and the coarse level c
PairTransfers(f, c) ==
    {t \in 1..Len(transfers) : transfers[t].fine_level = f /\ transfers[t].coarse_level = c}

\* the final-interpolation option of a transfer object is set
FinterSet(T) == Truthy(T.params.finter)

\* every two adjacent levels have one transfer object, and both their entries are
\* bound methods of it
OnePerPair ==
    pc \in {"levels", "done"} =>
        /\ Len(transfers) = IF Len(levels) = 0 THEN 0 ELSE Len(levels) - 1
        /\ \A m \in 1..(Len(levels) - 1) :
              LET f == levels[m]
                  c == levels[m + 1]
              IN  /\ Cardinality(PairTransfers(f, c)) = 1
                  /\ PairTransfers(c, f) = {}
                  /\ \A t \in PairTransfers(f, c) :
                        /\ transfer_dict[<<f, c>>] = [T |-> t, op |-> "restrict"]
                        /\ transfer_dict[<<c, f>>].T = t
                        /\ transfer_dict[<<c, f>>].op =
                              IF FinterSet(transfers[t]) THEN "prolong_f" ELSE "prolong"

\* an entry of the transfer table stays what it is
EntriesKept ==
    \A k \in DOMAIN transfer_dict :
        k \in DOMAIN transfer_dict' /\ transfer_dict'[k] = transfer_dict[k]

\* C12: the connection of two levels creates exactly one transfer object for the
\* pair and takes both table entries from it: (fine, coarse) is its restrict, and
\* (coarse, fine) is its prolong_f exactly when its finter option is set and its
\* prolong otherwise; an entry installed during the construction is never
\* overwritten by the connection of a later pair.
C12_Connect == []OnePerPair /\ [][EntriesKept]_vars

\* three levels connected by two transfer objects, the first with finter set and
\* the second without
C12_Witness ==
    /\ pc = "done"
    /\ Len(levels) >= 3
    /\ Len(transfers) >= 2
    /\ FinterSet(transfers[1])
    /\ ~FinterSet(transfers[2])
    /\ transfer_dict[<<levels[2], levels[1]>>] = [T |-> 1, op |-> "prolong_f"]
    /\ transfer_dict[<<levels[3], levels[2]>>] = [T |-> 2, op |-> "prolong"]
    /\ transfer_dict[<<levels[1], levels[2]>>] = [T |-> 1, op |-> "restrict"]

=============================================================================
